---- MODULE Spec2Model ----
(***************************************************************************)
(* Model of auxiliary_functions.py: process_axes (axis grouping of a       *)
(* tensor by the labels up1/up2/down1/down2 and an optional leading out    *)
(* axis) and TT_State_Compression (TT rounding of a chain of nodes, with   *)
(* names and axis names reattached by position).                           *)
(*                                                                         *)
(* A tensor is a record [shape, data]: shape is the sequence of axis       *)
(* sizes, data the elements in row-major (C) order.  Axis numbers are      *)
(* 0-based as in the source; sequences are 1-based, hence the +1/-1.       *)
(***************************************************************************)
EXTENDS Integers, Sequences, FiniteSets, TLC

\* ------------------------------------------------------------------ bounds
MaxDim == 3        \* largest size of one tensor axis
MaxElems == 16     \* largest number of elements of the tensor
MaxLen == 4        \* largest length of a bond_axes list with arbitrary entries
MaxNodes == 3      \* largest number of nodes of a TN_State chain
MaxBond == 2       \* largest bond dimension of a TN_State chain

\* ------------------------------------------------------- numpy primitives
RECURSIVE Prod(_)
\* number of elements of an array of shape s (1 for the empty shape)
Prod(s) == IF s = <<>> THEN 1 ELSE Head(s) * Prod(Tail(s))

\* row-major stride of axis j (1-based) in an array of shape s
Stride(s, j) == Prod(SubSeq(s, j + 1, Len(s)))

\* multi-index (0-based components) of the element at flat offset k
Unravel(s, k) == [j \in 1..Len(s) |-> (k \div Stride(s, j)) % s[j]]

RECURSIVE RavelFrom(_, _, _)
RavelFrom(s, idx, j) ==
    IF j > Len(s) THEN 0 ELSE idx[j] * Stride(s, j) + RavelFrom(s, idx, j + 1)

\* flat offset of the element at multi-index idx
Ravel(s, idx) == RavelFrom(s, idx, 1)

NoTensor == [shape |-> <<>>, data |-> <<>>]

Ok(t) == [kind |-> "ok", tensor |-> t, axes |-> <<>>]

Raise(e) == [kind |-> e, tensor |-> NoTensor, axes |-> <<>>]

\* np.transpose(t, axes): result axis k is input axis axes[k]
np_transpose(t, axes) ==
    LET rank == Len(t.shape) IN
    IF Len(axes) # rank THEN Raise("ValueError")
    ELSE IF \E k \in 1..rank : axes[k] \notin 0..(rank - 1) THEN Raise("AxisError")
    ELSE IF \E k, l \in 1..rank : k # l /\ axes[k] = axes[l] THEN Raise("ValueError")
    ELSE
        LET nshape == [k \in 1..rank |-> t.shape[axes[k] + 1]]
            src(o) ==
                LET oi == Unravel(nshape, o)
                    ii == [j \in 1..rank |-> oi[CHOOSE k \in 1..rank : axes[k] + 1 = j]]
                IN Ravel(t.shape, ii)
        IN Ok([shape |-> nshape,
               data |-> [o \in 1..Prod(nshape) |-> t.data[src(o - 1) + 1]]])

\* np.reshape(t, shp): same elements in the same row-major order
np_reshape(t, shp) ==
    IF Prod(shp) # Len(t.data) THEN Raise("ValueError")
    ELSE Ok([shape |-> shp, data |-> t.data])

\* ------------------------------------------------------------ process_axes
Labels == {"up1", "up2", "down1", "down2"}

\* name in axis_map
has(bond_axes, name) == \E i \in 1..Len(bond_axes) : bond_axes[i] = name

\* the labels in alphabetical order
AlphaRank(name) ==
    CASE name = "down1" -> 1 [] name = "down2" -> 2 [] name = "up1" -> 3
      [] name = "up2" -> 4 [] OTHER -> 5

\* variant: the positions are taken from the sorted list of labels
axis_map_sorted(bond_axes, name) ==
    Cardinality({i \in 1..Len(bond_axes) : AlphaRank(bond_axes[i]) < AlphaRank(name)})

\* axis_map[name]: the dict comprehension keeps the last position of a name
axis_map(bond_axes, name) ==
    (CHOOSE i \in 1..Len(bond_axes) :
        /\ bond_axes[i] = name
        /\ \A j \in 1..Len(bond_axes) : bond_axes[j] = name => j <= i) - 1

out_offset(has_out) == IF has_out THEN 1 ELSE 0

Opt(present, x) == IF present THEN <<x>> ELSE <<>>

\* variant: the out offset is not added to the position
Pos_no_offset(bond_axes, has_out, name) ==
    Opt(has(bond_axes, name), axis_map(bond_axes, name))

Pos(bond_axes, has_out, name) ==
    Opt(has(bond_axes, name), axis_map(bond_axes, name) + out_offset(has_out))

\* variant: up2 is placed before up1
target_order_up2_first(bond_axes, has_out) ==
    Opt(has_out, 0)
    \o Pos(bond_axes, has_out, "up2") \o Pos(bond_axes, has_out, "up1")
    \o Pos(bond_axes, has_out, "down1") \o Pos(bond_axes, has_out, "down2")

target_order(bond_axes, has_out) ==
    Opt(has_out, 0)
    \o Pos(bond_axes, has_out, "up1") \o Pos(bond_axes, has_out, "up2")
    \o Pos(bond_axes, has_out, "down1") \o Pos(bond_axes, has_out, "down2")

current_order(tensor) == [i \in 1..Len(tensor.shape) |-> i - 1]

Bit(b) == IF b THEN 1 ELSE 0

up_idx(has_out) == out_offset(has_out)

\* variant: up2 is not counted
down_idx_one_up(bond_axes, has_out) ==
    out_offset(has_out) + Bit(has(bond_axes, "up1"))

down_idx(bond_axes, has_out) ==
    out_offset(has_out) + Bit(has(bond_axes, "up1")) + Bit(has(bond_axes, "up2"))

\* the 0-based positions of shape that the new_shape computation reads
ShapeReads(bond_axes, has_out) ==
    (IF has_out THEN {0} ELSE {})
    \cup (IF has(bond_axes, "up1") \/ has(bond_axes, "up2")
          THEN {up_idx(has_out)} ELSE {})
    \cup (IF has(bond_axes, "up1") /\ has(bond_axes, "up2")
          THEN {up_idx(has_out) + 1} ELSE {})
    \cup (IF has(bond_axes, "down1") \/ has(bond_axes, "down2")
          THEN {down_idx(bond_axes, has_out)} ELSE {})
    \cup (IF has(bond_axes, "down1") /\ has(bond_axes, "down2")
          THEN {down_idx(bond_axes, has_out) + 1} ELSE {})

\* variant: the two sizes are added
Group_add(shape, first, both) ==
    IF both THEN <<shape[first + 1] + shape[first + 2]>> ELSE <<shape[first + 1]>>

Group(shape, first, both) ==
    IF both THEN <<shape[first + 1] * shape[first + 2]>> ELSE <<shape[first + 1]>>

new_shape(shape, bond_axes, has_out) ==
    (IF has_out THEN <<shape[1]>> ELSE <<>>)
    \o (IF has(bond_axes, "up1") \/ has(bond_axes, "up2")
        THEN Group(shape, up_idx(has_out),
                   has(bond_axes, "up1") /\ has(bond_axes, "up2"))
        ELSE <<>>)
    \o (IF has(bond_axes, "down1") \/ has(bond_axes, "down2")
        THEN Group(shape, down_idx(bond_axes, has_out),
                   has(bond_axes, "down1") /\ has(bond_axes, "down2"))
        ELSE <<>>)

\* variant: down is named before up
final_axes_down_first(bond_axes, has_out) ==
    Opt(has_out, "out")
    \o Opt(has(bond_axes, "down1") \/ has(bond_axes, "down2"), "down")
    \o Opt(has(bond_axes, "up1") \/ has(bond_axes, "up2"), "up")

final_axes(bond_axes, has_out) ==
    Opt(has_out, "out")
    \o Opt(has(bond_axes, "up1") \/ has(bond_axes, "up2"), "up")
    \o Opt(has(bond_axes, "down1") \/ has(bond_axes, "down2"), "down")

process_axes(tensor, bond_axes, has_out) ==
    LET tr == IF target_order(bond_axes, has_out) # current_order(tensor)
              THEN np_transpose(tensor, target_order(bond_axes, has_out))
              ELSE Ok(tensor)
    IN
    IF tr.kind # "ok" THEN tr
    ELSE IF \E i \in ShapeReads(bond_axes, has_out) : i >= Len(tr.tensor.shape)
    THEN Raise("IndexError")
    ELSE
        LET rs == np_reshape(tr.tensor,
                             new_shape(tr.tensor.shape, bond_axes, has_out))
        IN IF rs.kind # "ok" THEN rs
           ELSE [kind |-> "ok", tensor |-> rs.tensor,
                 axes |-> final_axes(bond_axes, has_out)]

\* ------------------------------------------------------------------- state
VARIABLES tensor, bond_axes, has_out, ret, prev, pc,
          TN_State, eps, TT_cores, tt_pc

vars == <<tensor, bond_axes, has_out, ret, prev, pc,
          TN_State, eps, TT_cores, tt_pc>>

pa_vars == <<tensor, bond_axes, has_out, ret, prev, pc>>

tt_vars == <<TN_State, eps, TT_cores, tt_pc>>

None == [kind |-> "none", tensor |-> NoTensor, axes |-> <<>>]

SeqsUpTo(S, n) == UNION {[1..k -> S] : k \in 0..n}

\* an array filled with its own flat offsets: every element is distinct
Arange(shape) == [shape |-> shape, data |-> [k \in 1..Prod(shape) |-> k - 1]]

\* the shapes of rank n within the bounds
Shapes(n) == {s \in [1..n -> 1..MaxDim] : Prod(s) <= MaxElems}

Distinct(axes) == \A i, j \in 1..Len(axes) : axes[i] = axes[j] => i = j

\* the precondition of process_axes: distinct labels of the vocabulary, one
\* per bond axis of the tensor
Valid(t, axes, h) ==
    /\ \A i \in 1..Len(axes) : axes[i] \in Labels
    /\ Distinct(axes)
    /\ Len(axes) + out_offset(h) = Len(t.shape)

\* every valid call
InitPA ==
    /\ has_out \in BOOLEAN
    /\ bond_axes \in {a \in SeqsUpTo(Labels, Cardinality(Labels)) : Distinct(a)}
    /\ \E shape \in Shapes(Len(bond_axes) + out_offset(has_out)) :
          tensor = Arange(shape)
    /\ ret = None
    /\ prev = None
    /\ pc = "ready"

\* every call, valid or not: any strings as labels, any rank
InitAnyPA ==
    /\ has_out \in BOOLEAN
    /\ bond_axes \in SeqsUpTo(Labels \cup {"side1"}, MaxLen)
    /\ \E n \in 0..(MaxLen + 1) : \E shape \in Shapes(n) : tensor = Arange(shape)
    /\ ret = None
    /\ prev = None
    /\ pc = "ready"

IdleTT ==
    /\ TN_State = <<>>
    /\ eps = 0
    /\ TT_cores = <<>>
    /\ tt_pc = "idle"

Init == InitPA /\ IdleTT

\* one call of process_axes on the current arguments
Call ==
    /\ pc = "ready"
    /\ ret' = process_axes(tensor, bond_axes, has_out)
    /\ pc' = "returned"
    /\ UNCHANGED <<tensor, bond_axes, has_out, prev, tt_vars>>

\* the caller stores the bond axes in another order: bond axis k of the new
\* tensor is bond axis p[k] of the old one and carries the same label; the
\* out axis stays at position 0.  The result of the first call is remembered
\* and the call is repeated once on the permuted arguments.
Permuted(t, axes, h, p) ==
    [tensor |-> np_transpose(t, Opt(h, 0)
                    \o [k \in 1..Len(axes) |-> p[k] - 1 + out_offset(h)]).tensor,
     bond_axes |-> [k \in 1..Len(axes) |-> axes[p[k]]]]

BondPerms(n) == {p \in [1..n -> 1..n] : \A i, j \in 1..n : p[i] = p[j] => i = j}

Relabel ==
    /\ pc = "returned"
    /\ prev = None
    /\ ret.kind = "ok"
    /\ Len(bond_axes) + out_offset(has_out) = Len(tensor.shape)
    /\ \E p \in BondPerms(Len(bond_axes)) :
          /\ tensor' = Permuted(tensor, bond_axes, has_out, p).tensor
          /\ bond_axes' = Permuted(tensor, bond_axes, has_out, p).bond_axes
    /\ prev' = ret
    /\ ret' = None
    /\ pc' = "ready"
    /\ UNCHANGED <<has_out, tt_vars>>

Next == Call \/ Relabel

Spec == Init /\ [][Next]_vars

InitAny == InitAnyPA /\ IdleTT

SpecAny == InitAny /\ [][Next]_vars

\* ---------------------------------------------------- TT_State_Compression
Names == {"q0", "q1"}

AxisNames == {<<"left", "out", "right">>, <<"up1", "out", "down1">>}

\* chains of 3-index cores: core i has shape (r[i], 2, r[i+1]), r[1] = r[n+1] = 1
Bonds(n) == {r \in [1..(n + 1) -> 1..MaxBond] : r[1] = 1 /\ r[n + 1] = 1}

Chain(names, axn, r, dtype) ==
    [i \in 1..Len(names) |->
        [name |-> names[i], axis_names |-> axn[i],
         tensor |-> [shape |-> <<r[i], 2, r[i + 1]>>, dtype |-> dtype]]]

IdlePA ==
    /\ tensor = NoTensor
    /\ bond_axes = <<>>
    /\ has_out = FALSE
    /\ ret = None
    /\ prev = None
    /\ pc = "idle"

InitTT ==
    /\ IdlePA
    /\ \E n \in 1..MaxNodes :
         \E names \in [1..n -> Names], axn \in [1..n -> AxisNames],
            r \in Bonds(n), dtype \in {"float64", "complex128"} :
              TN_State = Chain(names, axn, r, dtype)
    /\ eps \in 0..2
    /\ TT_cores = <<>>
    /\ tt_pc = "ready"

\* torch.tensor(node.tensor, dtype=torch.complex128) for every node
tensor_list(state) ==
    [i \in 1..Len(state) |-> [shape |-> state[i].tensor.shape, dtype |-> "complex128"]]

\* round_tt: the cores after rounding keep their number and physical sizes;
\* the bond ranks r are whatever the truncation leaves, never above the old ones
Rounded(cores, r) ==
    [i \in 1..Len(cores) |->
        [shape |-> <<r[i], cores[i].shape[2], r[i + 1]>>, dtype |-> cores[i].dtype]]

RoundedRanks(cores) ==
    {r \in Bonds(Len(cores)) : \A i \in 1..Len(cores) : r[i] <= cores[i].shape[1]}

\* tn.Node(core, name=..., axis_names=...): one name per axis of the core
Node(core, name, axis_names) ==
    [name |-> name, axis_names |-> axis_names, tensor |-> core]

\* variant: every core gets the metadata of the first node
Reattach_first(cores, state) ==
    [i \in 1..Len(cores) |-> Node(cores[i], state[1].name, state[1].axis_names)]

\* the loop over enumerate(TT_Compressed.cores)
Reattach(cores, state) ==
    [i \in 1..Len(cores) |-> Node(cores[i], state[i].name, state[i].axis_names)]

TT_State_Compression ==
    /\ tt_pc = "ready"
    /\ \E r \in RoundedRanks(tensor_list(TN_State)) :
          TT_cores' = Reattach(Rounded(tensor_list(TN_State), r), TN_State)
    /\ tt_pc' = "returned"
    /\ UNCHANGED <<TN_State, eps, pa_vars>>

\* the decomposition raises; nothing is caught, nothing is returned
TT_State_Compression_Raises ==
    /\ tt_pc = "ready"
    /\ tt_pc' = "raised"
    /\ UNCHANGED <<TN_State, eps, TT_cores, pa_vars>>

NextTT == TT_State_Compression \/ TT_State_Compression_Raises

SpecTT == InitTT /\ [][NextTT]_vars

\* ------------------------------------------------------------- properties
Returned == pc = "returned"

ValidCall == Returned /\ Valid(tensor, bond_axes, has_out)

\* the position (1-based) of a label that occurs once in bond_axes
LabelAt(name) == CHOOSE i \in 1..Len(bond_axes) : bond_axes[i] = name

\* the size of the input axis that a label is attached to
SizeOf(name) == tensor.shape[LabelAt(name) + out_offset(has_out)]

HasUp == has(bond_axes, "up1") \/ has(bond_axes, "up2")

HasDown == has(bond_axes, "down1") \/ has(bond_axes, "down2")

GroupSize(first, second) ==
    IF has(bond_axes, first) /\ has(bond_axes, second)
    THEN <<SizeOf(first) * SizeOf(second)>>
    ELSE IF has(bond_axes, first) THEN <<SizeOf(first)>>
    ELSE IF has(bond_axes, second) THEN <<SizeOf(second)>>
    ELSE <<>>

ExpectedShape ==
    (IF has_out THEN <<tensor.shape[1]>> ELSE <<>>)
    \o GroupSize("up1", "up2") \o GroupSize("down1", "down2")

\* the component on the axis labelled name of the output multi-index oi
Component(oi, name) ==
    LET up == oi[out_offset(has_out) + 1]
        down == oi[out_offset(has_out) + Bit(HasUp) + 1]
    IN CASE name = "up1" ->
              IF has(bond_axes, "up2") THEN up \div SizeOf("up2") ELSE up
         [] name = "up2" ->
              IF has(bond_axes, "up1") THEN up % SizeOf("up2") ELSE up
         [] name = "down1" ->
              IF has(bond_axes, "down2") THEN down \div SizeOf("down2") ELSE down
         [] name = "down2" ->
              IF has(bond_axes, "down1") THEN down % SizeOf("down2") ELSE down

\* the input multi-index that the output multi-index oi must show
SourceIndex(oi) ==
    [j \in 1..Len(tensor.shape) |->
        IF has_out /\ j = 1 THEN oi[1]
        ELSE Component(oi, bond_axes[j - out_offset(has_out)])]

\* C1: after a valid call every element of the output is the input element
\* whose index on the axis labelled X is the X-component of the output index,
\* with up = u1 * size(up2) + u2, down = d1 * size(down2) + d2 and the out
\* index passed through.
C1_ElementMap ==
    ValidCall =>
        /\ ret.kind = "ok"
        /\ Len(ret.tensor.data) = Prod(ret.tensor.shape)
        /\ \A o \in 0..(Len(ret.tensor.data) - 1) :
              ret.tensor.data[o + 1] =
                 tensor.data[Ravel(tensor.shape,
                                   SourceIndex(Unravel(ret.tensor.shape, o))) + 1]

\* the case of the example: out axis, up1 and up2 merged (sizes 3 and 2), down1
C1_Witness ==
    /\ ValidCall
    /\ has_out
    /\ bond_axes = <<"up1", "up2", "down1">>
    /\ tensor.shape = <<2, 3, 2, 1>>
    /\ ret.tensor.shape = <<2, 6, 1>>

\* C2: after a valid call the output has as many elements as the input: the
\* product of the output shape equals the product of the input shape.
C2_ShapeProduct ==
    ValidCall =>
        /\ ret.kind = "ok"
        /\ Prod(ret.tensor.shape) = Prod(tensor.shape)
        /\ Len(ret.tensor.data) = Len(tensor.data)

C2_Witness ==
    /\ ValidCall
    /\ Cardinality({bond_axes[i] : i \in 1..Len(bond_axes)}) = 4
    /\ Prod(tensor.shape) = 16
    /\ Len(ret.tensor.shape) = 2

\* C3: after a valid call the axis names are out (iff has_out), then up (iff
\* up1 or up2 is a label), then down (iff down1 or down2 is a label), and the
\* rank of the returned tensor is the length of that list, at most 3.
C3_AxisNames ==
    ValidCall =>
        /\ ret.kind = "ok"
        /\ ret.axes = Opt(has_out, "out") \o Opt(HasUp, "up") \o Opt(HasDown, "down")
        /\ Len(ret.tensor.shape) = Len(ret.axes)
        /\ Len(ret.axes) \in 0..3

\* labels listed down before up, and still out, up, down comes back
C3_Witness ==
    /\ ValidCall
    /\ has_out
    /\ bond_axes = <<"down2", "up2", "down1">>
    /\ ret.axes = <<"out", "up", "down">>

\* C4: after a valid call the output shape is the size of input axis 0 (if
\* has_out), then the product of the sizes of the axes labelled up1 and up2
\* (or the size of the one present), then the same for down1 and down2, the
\* size of a label being that of the input axis it is attached to.
C4_OutputShape ==
    ValidCall => ret.kind = "ok" /\ ret.tensor.shape = ExpectedShape

\* labels out of order, axes of different sizes, both groups merged
C4_Witness ==
    /\ ValidCall
    /\ ~has_out
    /\ bond_axes = <<"down1", "up2", "down2", "up1">>
    /\ tensor.shape = <<2, 1, 2, 3>>
    /\ ret.tensor.shape = <<3, 4>>

\* labels in the order up1, up2, down1, down2 and no group with both its labels
Rank(name) ==
    CASE name = "up1" -> 1 [] name = "up2" -> 2 [] name = "down1" -> 3
      [] name = "down2" -> 4 [] OTHER -> 5

Canonical ==
    /\ \A i, j \in 1..Len(bond_axes) : i < j => Rank(bond_axes[i]) < Rank(bond_axes[j])
    /\ ~(has(bond_axes, "up1") /\ has(bond_axes, "up2"))
    /\ ~(has(bond_axes, "down1") /\ has(bond_axes, "down2"))

\* C8: a valid call whose labels are already in canonical order, no group
\* holding both of its labels, returns the input tensor (same shape, same
\* value at every index) with the labels renamed to up / down.
C8_CanonicalUnchanged ==
    (ValidCall /\ Canonical) =>
        /\ ret.kind = "ok"
        /\ ret.tensor = tensor
        /\ ret.axes = Opt(has_out, "out")
              \o [i \in 1..Len(bond_axes) |->
                    IF bond_axes[i] \in {"up1", "up2"} THEN "up" ELSE "down"]

C8_Witness ==
    /\ ValidCall
    /\ Canonical
    /\ has_out
    /\ bond_axes = <<"up1", "down1">>
    /\ tensor.shape = <<2, 3, 2>>
    /\ ret.tensor.shape = <<2, 3, 2>>

\* C10: the result depends only on which label is attached to which axis: a
\* valid call repeated on the tensor with its bond axes permuted and the
\* labels permuted alike returns the same tensor and the same axis names, and
\* the target order of a valid call is a permutation of 0..rank-1.
C10_OrderIndependent ==
    /\ (Returned /\ prev # None) => ret = prev
    /\ ValidCall =>
          LET t == target_order(bond_axes, has_out)
          IN /\ Len(t) = Len(tensor.shape)
             /\ {t[k] : k \in 1..Len(t)} = 0..(Len(tensor.shape) - 1)

\* the second call ran on a genuinely different arrangement of the data
C10_Witness ==
    /\ Returned
    /\ prev # None
    /\ bond_axes = <<"down1", "up2", "up1">>
    /\ tensor.shape = <<2, 2, 3, 1>>
    /\ tensor # Arange(tensor.shape)
    /\ ret.tensor.shape = <<2, 3, 2>>

\* C5: a call whose bond_axes holds a string outside the vocabulary ends in
\* InvalidAxisLabel and never returns a tensor and axis names.
C5_InvalidAxisLabel ==
    (Returned /\ \E i \in 1..Len(bond_axes) : bond_axes[i] \notin Labels)
        => ret.kind = "InvalidAxisLabel"

\* C6: a call with len(bond_axes) + (1 if has_out) different from the rank of
\* the tensor ends in AxisCountMismatch and returns no result.
C6_AxisCountMismatch ==
    (Returned /\ Len(bond_axes) + out_offset(has_out) # Len(tensor.shape))
        => ret.kind = "AxisCountMismatch"

\* C7: a call whose bond_axes repeats a label ends in DuplicateAxisLabel and
\* returns no result.
C7_DuplicateAxisLabel ==
    (Returned /\ ~Distinct(bond_axes)) => ret.kind = "DuplicateAxisLabel"

\* C9: TT_State_Compression returns as many nodes as TN_State has, and the
\* i-th returned node carries the name and the axis names of the i-th input
\* node, whatever the rounding made of the cores.
C9_MetadataPositional ==
    tt_pc = "returned" =>
        /\ Len(TT_cores) = Len(TN_State)
        /\ \A i \in 1..Len(TN_State) :
              /\ TT_cores[i].name = TN_State[i].name
              /\ TT_cores[i].axis_names = TN_State[i].axis_names

\* nodes with different names and axis names, and a bond the rounding lowered
C9_Witness ==
    /\ tt_pc = "returned"
    /\ Len(TN_State) = 3
    /\ TN_State[1].name # TN_State[2].name
    /\ TN_State[2].axis_names # TN_State[3].axis_names
    /\ TN_State[2].tensor.shape = <<2, 2, 2>>
    /\ TT_cores[2].tensor.shape = <<1, 2, 2>>
====
